---- MODULE Spec2Model ----
(***************************************************************************)
(* Model of go-jpeg-meta-web-strip (strip.go): Strip walks the segment     *)
(* list of a JPEG container, drops COM / APP13 / XMP segments, edits EXIF  *)
(* APP1 payloads (thumbnail truncation, GPS pointer zeroing, camera tag    *)
(* zeroing) and accumulates removed-byte counters in a Result.             *)
(*                                                                         *)
(* Byte strings are sequences over 0..255.  Go slices are 0-based, TLA+    *)
(* sequences 1-based: the byte at Go index i of b is b[i+1].  Go's int is  *)
(* taken to be 64 bits wide (the CI targets), so 6 + a uint32 never wraps. *)
(***************************************************************************)
EXTENDS Integers, Naturals, Sequences, FiniteSets, TLC

\* ------------------------------------------------------------------------
\* Bounds of the explored input space
\* ------------------------------------------------------------------------
\* number of segments between SOI and EOI
MaxSegs == 2
\* number of IFD0 entries of the EXIF blob
MaxEntries == 2

\* ------------------------------------------------------------------------
\* Marker ids (go-jpeg-image-structure constants used by processSegment)
\* ------------------------------------------------------------------------
MARKER_SOI == 216
MARKER_EOI == 217
MARKER_SOS == 218
MARKER_DQT == 219
MARKER_DHT == 196
MARKER_SOF0 == 192
MARKER_SOF1 == 193
MARKER_SOF2 == 194
MARKER_APP1 == 225
MARKER_APP2 == 226
MARKER_APP13 == 237
MARKER_APP14 == 238
MARKER_COM == 254
\* "Exif\x00\x00"
ExifHeader == <<69, 120, 105, 102, 0, 0>>

\* "http://ns.adobe.com/xap/1.0/\x00" (29 bytes)
XMPHeader ==
  <<104, 116, 116, 112, 58, 47, 47, 110, 115, 46, 97, 100, 111, 98, 101,
    46, 99, 111, 109, 47, 120, 97, 112, 47, 49, 46, 48, 47, 0>>

\* ------------------------------------------------------------------------
\* encoding/binary primitives
\* ------------------------------------------------------------------------
Min(a, b) == IF a < b THEN a ELSE b

\* F applied to the value of v, v being evaluated once (a local variable)
With(v, F(_)) == CHOOSE r \in {F(x) : x \in {v}} : TRUE

\* b[lo:hi] of Go (lo, hi 0-based, hi exclusive)
Slice(b, lo, hi) == SubSeq(b, lo + 1, hi)

HasPrefix(b, p) == Len(b) >= Len(p) /\ SubSeq(b, 1, Len(p)) = p

BigEndianUint16(b, p) == b[p + 1] * 256 + b[p + 2]

readUint16(b, p, littleEndian) ==
  IF littleEndian THEN b[p + 1] + b[p + 2] * 256
                  ELSE b[p + 1] * 256 + b[p + 2]

readUint32(b, p, littleEndian) ==
  IF littleEndian
    THEN b[p + 1] + b[p + 2] * 256 + b[p + 3] * 65536 + b[p + 4] * 16777216
    ELSE b[p + 1] * 16777216 + b[p + 2] * 65536 + b[p + 3] * 256 + b[p + 4]

PutUint16(v, littleEndian) ==
  IF littleEndian THEN << v % 256, (v \div 256) % 256 >>
                  ELSE << (v \div 256) % 256, v % 256 >>

PutUint32(v, littleEndian) ==
  IF littleEndian
    THEN << v % 256, (v \div 256) % 256, (v \div 65536) % 256, (v \div 16777216) % 256 >>
    ELSE << (v \div 16777216) % 256, (v \div 65536) % 256, (v \div 256) % 256, v % 256 >>

\* the byte string b with the bytes of w written at Go index p
WriteAt(b, p, w) ==
  With(b, LAMBDA c :
    [i \in 1..Len(c) |-> IF i > p /\ i <= p + Len(w) THEN w[i - p] ELSE c[i]])

\* ------------------------------------------------------------------------
\* getTagDataSize
\* ------------------------------------------------------------------------
\* a size table that takes every type for a 1-byte type
typeSize_flat(tagType) == IF tagType \in {1, 2, 6, 7} THEN 1 ELSE 1

typeSize(tagType) ==
  IF tagType \in {1, 2, 6, 7} THEN 1
  ELSE IF tagType \in {3, 8} THEN 2
  ELSE IF tagType \in {4, 9, 11} THEN 4
  ELSE IF tagType \in {5, 10, 12} THEN 8
  ELSE 1

getTagDataSize(tagType, count) == typeSize(tagType) * count

\* ------------------------------------------------------------------------
\* removeThumbnailFromExif
\* ------------------------------------------------------------------------
ThumbErr(exifData) == [data |-> exifData, removed |-> FALSE, size |-> 0, err |-> TRUE]

removeThumbnailFromExif(exifData) ==
  IF Len(exifData) < 6 \/ Slice(exifData, 0, 6) # ExifHeader THEN ThumbErr(exifData)
  ELSE IF Len(exifData) < 6 + 8 THEN ThumbErr(exifData)
  ELSE
    LET pos == 6
        littleEndian == BigEndianUint16(exifData, pos) = 18761
        ifd0Offset == readUint32(exifData, pos + 4, littleEndian)
        ifd0Pos == pos + ifd0Offset
    IN IF Len(exifData) < ifd0Pos + 2 THEN ThumbErr(exifData)
       ELSE
         LET entryCount == readUint16(exifData, ifd0Pos, littleEndian)
             ifd1OffsetPos == ifd0Pos + 2 + entryCount * 12
         IN IF Len(exifData) < ifd1OffsetPos + 4 THEN ThumbErr(exifData)
            ELSE
              LET ifd1Offset == readUint32(exifData, ifd1OffsetPos, littleEndian)
                  thumbStart == pos + ifd1Offset
                  thumbSize == Len(exifData) - thumbStart
                  zeroed == WriteAt(exifData, ifd1OffsetPos, PutUint32(0, littleEndian))
                  result == IF thumbStart < Len(zeroed)
                              THEN Slice(zeroed, 0, thumbStart) ELSE zeroed
              IN IF ifd1Offset = 0
                   THEN [data |-> exifData, removed |-> FALSE, size |-> 0, err |-> FALSE]
                   ELSE [data |-> result, removed |-> TRUE, size |-> thumbSize, err |-> FALSE]

\* ------------------------------------------------------------------------
\* removeGPSFromExif
\* ------------------------------------------------------------------------
Unmodified(exifData) == [data |-> exifData, removed |-> FALSE, size |-> 0]

\* the loop of removeGPSFromExif from entry i on: the entry position of the
\* first GPS IFD pointer tag (0x8825) met before the loop ends, or -1
RECURSIVE gpsScan(_, _, _, _, _)
gpsScan(exifData, ifd0Pos, entryCount, littleEndian, i) ==
  LET entryPos == ifd0Pos + 2 + i * 12
  IN IF i >= entryCount THEN -1
     ELSE IF Len(exifData) < entryPos + 12 THEN -1
     ELSE IF readUint16(exifData, entryPos, littleEndian) = 34853 THEN entryPos
     ELSE gpsScan(exifData, ifd0Pos, entryCount, littleEndian, i + 1)

\* the number of times the body of that loop is entered from entry i on
RECURSIVE gpsScanIterations(_, _, _, _, _)
gpsScanIterations(exifData, ifd0Pos, entryCount, littleEndian, i) ==
  LET entryPos == ifd0Pos + 2 + i * 12
  IN IF i >= entryCount THEN 0
     ELSE IF Len(exifData) < entryPos + 12 THEN 1
     ELSE IF readUint16(exifData, entryPos, littleEndian) = 34853 THEN 1
     ELSE 1 + gpsScanIterations(exifData, ifd0Pos, entryCount, littleEndian, i + 1)

\* removeGPSFromExif storing the 0 into the count field of the entry
removeGPSFromExif_countField(exifData) ==
  IF Len(exifData) < 6 \/ Slice(exifData, 0, 6) # ExifHeader THEN Unmodified(exifData)
  ELSE IF Len(exifData) < 6 + 8 THEN Unmodified(exifData)
  ELSE
    LET pos == 6
        littleEndian == BigEndianUint16(exifData, pos) = 18761
        ifd0Offset == readUint32(exifData, pos + 4, littleEndian)
        ifd0Pos == pos + ifd0Offset
    IN IF Len(exifData) < ifd0Pos + 2 THEN Unmodified(exifData)
       ELSE
         LET entryCount == readUint16(exifData, ifd0Pos, littleEndian)
             entryPos == gpsScan(exifData, ifd0Pos, entryCount, littleEndian, 0)
             gpsTagFound == entryPos # -1
             gpsIFDOffset == IF gpsTagFound
                               THEN readUint32(exifData, entryPos + 8, littleEndian) ELSE 0
             result == WriteAt(exifData, entryPos + 4, PutUint32(0, littleEndian))
             gpsDataSize == 200
         IN IF ~gpsTagFound \/ gpsIFDOffset = 0 THEN Unmodified(exifData)
            ELSE [data |-> result, removed |-> TRUE, size |-> gpsDataSize]

removeGPSFromExif(exifData) ==
  IF Len(exifData) < 6 \/ Slice(exifData, 0, 6) # ExifHeader THEN Unmodified(exifData)
  ELSE IF Len(exifData) < 6 + 8 THEN Unmodified(exifData)
  ELSE
    LET pos == 6
        littleEndian == BigEndianUint16(exifData, pos) = 18761
        ifd0Offset == readUint32(exifData, pos + 4, littleEndian)
        ifd0Pos == pos + ifd0Offset
    IN IF Len(exifData) < ifd0Pos + 2 THEN Unmodified(exifData)
       ELSE
         LET entryCount == readUint16(exifData, ifd0Pos, littleEndian)
             entryPos == gpsScan(exifData, ifd0Pos, entryCount, littleEndian, 0)
             gpsTagFound == entryPos # -1
             gpsIFDOffset == IF gpsTagFound
                               THEN readUint32(exifData, entryPos + 8, littleEndian) ELSE 0
             result == WriteAt(exifData, entryPos + 8, PutUint32(0, littleEndian))
             gpsDataSize == 200
         IN IF ~gpsTagFound \/ gpsIFDOffset = 0 THEN Unmodified(exifData)
            ELSE [data |-> result, removed |-> TRUE, size |-> gpsDataSize]

\* ------------------------------------------------------------------------
\* removeCameraInfoFromExif
\* ------------------------------------------------------------------------
\* Make, Model, MakerNote, Interoperability IFD
cameraTagsToRemove == {271, 272, 37500, 40965}

\* a zeroing that stops before the value / offset field
Zeros12_short == <<0, 0, 0, 0, 0, 0, 0, 0>>

Zeros12 == <<0, 0, 0, 0, 0, 0, 0, 0, 0, 0, 0, 0>>

\* the loop of removeCameraInfoFromExif from entry i on, with the copy and
\* the byte count accumulated so far
RECURSIVE camScan(_, _, _, _, _, _, _)
camScan(exifData, ifd0Pos, entryCount, littleEndian, i, result, removedSize) ==
  LET entryPos == ifd0Pos + 2 + i * 12
  IN IF i >= entryCount THEN [data |-> result, size |-> removedSize]
     ELSE IF Len(exifData) < entryPos + 12 THEN [data |-> result, size |-> removedSize]
     ELSE IF readUint16(exifData, entryPos, littleEndian) \in cameraTagsToRemove
       THEN LET tagType == readUint16(exifData, entryPos + 2, littleEndian)
                count == readUint32(exifData, entryPos + 4, littleEndian)
                dataSize == getTagDataSize(tagType, count)
            IN With(WriteAt(result, entryPos, Zeros12), LAMBDA zeroed :
                 camScan(exifData, ifd0Pos, entryCount, littleEndian, i + 1,
                         zeroed, removedSize + dataSize))
       ELSE camScan(exifData, ifd0Pos, entryCount, littleEndian, i + 1, result, removedSize)

\* the number of times the body of that loop is entered from entry i on
RECURSIVE camScanIterations(_, _, _, _)
camScanIterations(exifData, ifd0Pos, entryCount, i) ==
  IF i >= entryCount THEN 0
  ELSE IF Len(exifData) < ifd0Pos + 2 + i * 12 + 12 THEN 1
  ELSE 1 + camScanIterations(exifData, ifd0Pos, entryCount, i + 1)

removeCameraInfoFromExif(exifData) ==
  IF Len(exifData) < 6 \/ Slice(exifData, 0, 6) # ExifHeader THEN Unmodified(exifData)
  ELSE IF Len(exifData) < 6 + 8 THEN Unmodified(exifData)
  ELSE
    LET pos == 6
        littleEndian == BigEndianUint16(exifData, pos) = 18761
        ifd0Offset == readUint32(exifData, pos + 4, littleEndian)
        ifd0Pos == pos + ifd0Offset
    IN IF Len(exifData) < ifd0Pos + 2 THEN Unmodified(exifData)
       ELSE
         LET entryCount == readUint16(exifData, ifd0Pos, littleEndian)
             scan == camScan(exifData, ifd0Pos, entryCount, littleEndian, 0, exifData, 0)
         IN IF scan.size = 0 THEN Unmodified(exifData)
            ELSE [data |-> scan.data, removed |-> TRUE, size |-> scan.size]

\* ------------------------------------------------------------------------
\* The slice expressions the three sub-edits evaluate.  <<lo, hi, n>> stands
\* for b[lo:hi] on a buffer b of n bytes (exifData, or result, which has the
\* length of exifData); an indexed store b[i] is <<i, i + 1, n>>.  Each
\* operator follows the control flow of its function, so a slice expression
\* is listed exactly when the code reaches it.
\* ------------------------------------------------------------------------
\* the checks and reads all three functions start with, up to the IFD0
\* entry count
headerAccesses(exifData) ==
  LET n == Len(exifData)
  IN IF n < 6 THEN {}
     ELSE {<<0, 6, n>>} \cup
          (IF Slice(exifData, 0, 6) # ExifHeader \/ n < 6 + 8 THEN {}
           ELSE {<<6, 8, n>>, <<10, 14, n>>})

\* the function goes on to read the entry count at ifd0Pos
reachesIfd0(exifData) ==
  /\ Len(exifData) >= 6 + 8
  /\ Slice(exifData, 0, 6) = ExifHeader
  /\ Len(exifData) >= 6 + readUint32(exifData, 10, BigEndianUint16(exifData, 6) = 18761) + 2

thumbnailAccesses(exifData) ==
  headerAccesses(exifData) \cup
  (IF ~reachesIfd0(exifData) THEN {}
   ELSE LET n == Len(exifData)
            littleEndian == BigEndianUint16(exifData, 6) = 18761
            ifd0Pos == 6 + readUint32(exifData, 10, littleEndian)
            entryCount == readUint16(exifData, ifd0Pos, littleEndian)
            ifd1OffsetPos == ifd0Pos + 2 + entryCount * 12
        IN {<<ifd0Pos, ifd0Pos + 2, n>>} \cup
           (IF n < ifd1OffsetPos + 4 THEN {}
            ELSE {<<ifd1OffsetPos, ifd1OffsetPos + 4, n>>} \cup
                 (LET ifd1Offset == readUint32(exifData, ifd1OffsetPos, littleEndian)
                      thumbStart == 6 + ifd1Offset
                  IN IF ifd1Offset = 0 THEN {}
                     ELSE {<<ifd1OffsetPos, n, n>>} \cup
                          (IF thumbStart < n THEN {<<0, thumbStart, n>>} ELSE {}))))

\* the scan loop of removeGPSFromExif without its length test
gpsLoopAccesses_noBreak(exifData, ifd0Pos, entryCount, littleEndian, i) ==
  {<<ifd0Pos + 2 + k * 12, ifd0Pos + 2 + k * 12 + 2, Len(exifData)>> :
     k \in i..(entryCount - 1)}

RECURSIVE gpsLoopAccesses(_, _, _, _, _)
gpsLoopAccesses(exifData, ifd0Pos, entryCount, littleEndian, i) ==
  LET n == Len(exifData)
      entryPos == ifd0Pos + 2 + i * 12
  IN IF i >= entryCount THEN {}
     ELSE IF n < entryPos + 12 THEN {}
     ELSE {<<entryPos, entryPos + 2, n>>} \cup
          (IF readUint16(exifData, entryPos, littleEndian) = 34853
             THEN {<<entryPos + 8, entryPos + 12, n>>}
             ELSE gpsLoopAccesses(exifData, ifd0Pos, entryCount, littleEndian, i + 1))

gpsAccesses(exifData) ==
  headerAccesses(exifData) \cup
  (IF ~reachesIfd0(exifData) THEN {}
   ELSE LET n == Len(exifData)
            littleEndian == BigEndianUint16(exifData, 6) = 18761
            ifd0Pos == 6 + readUint32(exifData, 10, littleEndian)
        IN {<<0, n, n>>, <<ifd0Pos, ifd0Pos + 2, n>>} \cup
           gpsLoopAccesses(exifData, ifd0Pos,
                           readUint16(exifData, ifd0Pos, littleEndian), littleEndian, 0))

RECURSIVE cameraLoopAccesses(_, _, _, _, _)
cameraLoopAccesses(exifData, ifd0Pos, entryCount, littleEndian, i) ==
  LET n == Len(exifData)
      entryPos == ifd0Pos + 2 + i * 12
  IN IF i >= entryCount THEN {}
     ELSE IF n < entryPos + 12 THEN {}
     ELSE {<<entryPos, entryPos + 2, n>>} \cup
          (IF readUint16(exifData, entryPos, littleEndian) \in {271, 272, 37500, 40965}
             THEN {<<entryPos + 2, entryPos + 4, n>>, <<entryPos + 4, entryPos + 8, n>>}
                  \cup {<<entryPos + j, entryPos + j + 1, n>> : j \in 0..11}
             ELSE {}) \cup
          cameraLoopAccesses(exifData, ifd0Pos, entryCount, littleEndian, i + 1)

cameraAccesses(exifData) ==
  headerAccesses(exifData) \cup
  (IF ~reachesIfd0(exifData) THEN {}
   ELSE LET n == Len(exifData)
            littleEndian == BigEndianUint16(exifData, 6) = 18761
            ifd0Pos == 6 + readUint32(exifData, 10, littleEndian)
        IN {<<0, n, n>>, <<ifd0Pos, ifd0Pos + 2, n>>} \cup
           cameraLoopAccesses(exifData, ifd0Pos,
                              readUint16(exifData, ifd0Pos, littleEndian), littleEndian, 0))

\* ------------------------------------------------------------------------
\* Result and cleanExifSegment
\* ------------------------------------------------------------------------
NewResult ==
  [ExifThumbnail |-> 0, ExifGPS |-> 0, CameraInfo |-> 0, XMP |-> 0, IPTC |-> 0,
   PhotoshopIRB |-> 0, Comments |-> 0, Total |-> 0]

\* cleanExifSegment that goes on to the GPS and camera sub-edits when the
\* thumbnail sub-edit returned an error
cleanExifSegment_noAbort(exifData, res) ==
  With(removeThumbnailFromExif(exifData), LAMBDA thumb :
    LET r1 == IF thumb.removed
                THEN [res EXCEPT !.ExifThumbnail = @ + thumb.size] ELSE res
        t1 == IF thumb.removed THEN thumb.size ELSE 0
        d1 == IF thumb.removed THEN thumb.data ELSE exifData
    IN With(removeGPSFromExif(d1), LAMBDA gps :
         LET r2 == IF gps.removed THEN [r1 EXCEPT !.ExifGPS = @ + gps.size] ELSE r1
             t2 == IF gps.removed THEN t1 + gps.size ELSE t1
             d2 == IF gps.removed THEN gps.data ELSE d1
         IN With(removeCameraInfoFromExif(d2), LAMBDA cam :
              LET r3 == IF cam.removed THEN [r2 EXCEPT !.CameraInfo = @ + cam.size] ELSE r2
                  t3 == IF cam.removed THEN t2 + cam.size ELSE t2
                  d3 == IF cam.removed THEN cam.data ELSE d2
              IN [data |-> d3, modified |-> t3 > 0, removed |-> t3, result |-> r3])))

\* returns the cleaned blob, the modified flag, the removed byte count and
\* the Result as cleanExifSegment leaves it
\* cleanExifSegment that returns as soon as the thumbnail sub-edit finds
\* nothing to remove
cleanExifSegment_stopEarly(exifData, res) ==
  IF ~removeThumbnailFromExif(exifData).removed
    THEN [data |-> exifData, modified |-> FALSE, removed |-> 0, result |-> res]
    ELSE cleanExifSegment_noAbort(exifData, res)

cleanExifSegment(exifData, res) ==
  With(removeThumbnailFromExif(exifData), LAMBDA thumb :
    LET r1 == IF thumb.removed
                THEN [res EXCEPT !.ExifThumbnail = @ + thumb.size] ELSE res
        t1 == IF thumb.removed THEN thumb.size ELSE 0
        d1 == IF thumb.removed THEN thumb.data ELSE exifData
    IN With(removeGPSFromExif(d1), LAMBDA gps :
         LET r2 == IF gps.removed THEN [r1 EXCEPT !.ExifGPS = @ + gps.size] ELSE r1
             t2 == IF gps.removed THEN t1 + gps.size ELSE t1
             d2 == IF gps.removed THEN gps.data ELSE d1
         IN With(removeCameraInfoFromExif(d2), LAMBDA cam :
              LET r3 == IF cam.removed THEN [r2 EXCEPT !.CameraInfo = @ + cam.size] ELSE r2
                  t3 == IF cam.removed THEN t2 + cam.size ELSE t2
                  d3 == IF cam.removed THEN cam.data ELSE d2
              IN IF thumb.err
                   THEN [data |-> exifData, modified |-> FALSE, removed |-> 0,
                         result |-> res]
                   ELSE [data |-> d3, modified |-> t3 > 0, removed |-> t3,
                         result |-> r3])))

\* ------------------------------------------------------------------------
\* Segments: isExifSegment, isXMPSegment, processAPP1Segment, processSegment
\* ------------------------------------------------------------------------
\* ------------------------------------------------------------------------
\* What the callee leaves in the buffer it was handed.  Each sub-edit makes
\* result := make([]byte, len(exifData)), copies, and stores through result
\* only; the truncation re-slices result.  The contents of the argument
\* after the call are therefore the contents before it.
\* ------------------------------------------------------------------------
removeThumbnailFromExifArg(exifData) == exifData

\* removeGPSFromExif storing through exifData instead of the copy
removeGPSFromExifArg_inPlace(exifData) == removeGPSFromExif(exifData).data

removeGPSFromExifArg(exifData) == exifData

removeCameraInfoFromExifArg(exifData) == exifData

\* cleanExifSegment: its parameter exifData names the caller's buffer until a
\* sub-edit reports a removal and the parameter is rebound to the copy; the
\* later sub-edits are handed the caller's buffer only until then
cleanExifSegmentArg(exifData) ==
  With(removeThumbnailFromExif(exifData), LAMBDA thumb :
    With(removeThumbnailFromExifArg(exifData), LAMBDA a1 :
      IF thumb.err \/ thumb.removed THEN a1
      ELSE With(removeGPSFromExif(a1), LAMBDA gps :
             With(removeGPSFromExifArg(a1), LAMBDA a2 :
               IF gps.removed THEN a2 ELSE removeCameraInfoFromExifArg(a2)))))

Seg(markerId, offset, data) == [MarkerId |-> markerId, Offset |-> offset, Data |-> data]

isExifSegment(segment) ==
  IF Len(segment.Data) < 6 THEN FALSE ELSE HasPrefix(segment.Data, ExifHeader)

\* isXMPSegment without the length test: a payload that is the beginning of
\* the signature matches
isXMPSegment_prefix(segment) ==
  segment.Data = SubSeq(XMPHeader, 1, Len(segment.Data)) \/ HasPrefix(segment.Data, XMPHeader)

isXMPSegment(segment) ==
  IF Len(segment.Data) < 29 THEN FALSE ELSE HasPrefix(segment.Data, XMPHeader)

\* processAPP1Segment with the cleaned bytes appended to the payload instead
\* of replacing it
processAPP1Segment_append(segment, res, removedSize) ==
  IF isXMPSegment(segment)
    THEN [seg |-> segment, keep |-> FALSE,
          result |-> [res EXCEPT !.XMP = @ + removedSize, !.Total = @ + removedSize]]
  ELSE IF isExifSegment(segment)
    THEN With(cleanExifSegment(segment.Data, res), LAMBDA c :
           IF c.modified
             THEN [seg |-> Seg(segment.MarkerId, segment.Offset, segment.Data \o c.data),
                   keep |-> TRUE,
                   result |-> [c.result EXCEPT !.Total = @ + c.removed]]
             ELSE [seg |-> segment, keep |-> TRUE, result |-> c.result])
  ELSE [seg |-> segment, keep |-> TRUE, result |-> res]

\* each returns the segment handed back, the keep flag and the Result after
processAPP1Segment(segment, res, removedSize) ==
  IF isXMPSegment(segment)
    THEN [seg |-> segment, keep |-> FALSE,
          result |-> [res EXCEPT !.XMP = @ + removedSize, !.Total = @ + removedSize]]
  ELSE IF isExifSegment(segment)
    THEN With(cleanExifSegment(segment.Data, res), LAMBDA c :
           IF c.modified
             THEN [seg |-> Seg(segment.MarkerId, segment.Offset, c.data), keep |-> TRUE,
                   result |-> [c.result EXCEPT !.Total = @ + c.removed]]
             ELSE [seg |-> segment, keep |-> TRUE, result |-> c.result])
  ELSE [seg |-> segment, keep |-> TRUE, result |-> res]

\* processSegment with a default case that drops what it does not recognize
processSegment_dropUnknown(segment, res) ==
  LET removedSize == Len(segment.Data)
  IN IF segment.MarkerId = MARKER_APP1
       THEN processAPP1Segment(segment, res, removedSize)
     ELSE IF segment.MarkerId = MARKER_APP13
       THEN [seg |-> segment, keep |-> FALSE,
             result |-> [res EXCEPT !.PhotoshopIRB = @ + removedSize,
                                    !.Total = @ + removedSize]]
     ELSE IF segment.MarkerId = MARKER_COM
       THEN [seg |-> segment, keep |-> FALSE,
             result |-> [res EXCEPT !.Comments = @ + removedSize,
                                    !.Total = @ + removedSize]]
     ELSE IF segment.MarkerId \in {MARKER_APP2, MARKER_APP14, MARKER_SOF0, MARKER_SOF1,
                                   MARKER_SOF2, MARKER_DQT, MARKER_DHT, MARKER_SOS,
                                   MARKER_SOI, MARKER_EOI}
       THEN [seg |-> segment, keep |-> TRUE, result |-> res]
     ELSE [seg |-> segment, keep |-> FALSE, result |-> res]

\* processSegment without the COM case: comments fall to the default
processSegment_keepCOM(segment, res) ==
  LET removedSize == Len(segment.Data)
  IN IF segment.MarkerId = MARKER_APP1
       THEN processAPP1Segment(segment, res, removedSize)
     ELSE IF segment.MarkerId = MARKER_APP13
       THEN [seg |-> segment, keep |-> FALSE,
             result |-> [res EXCEPT !.PhotoshopIRB = @ + removedSize,
                                    !.Total = @ + removedSize]]
     ELSE [seg |-> segment, keep |-> TRUE, result |-> res]

\* processSegment whose COM case leaves Total alone
processSegment_comNoTotal(segment, res) ==
  IF segment.MarkerId = MARKER_COM
    THEN [seg |-> segment, keep |-> FALSE,
          result |-> [res EXCEPT !.Comments = @ + Len(segment.Data)]]
    ELSE processSegment_keepCOM(segment, res)

\* processSegment that drops the table segments
processSegment_dropTables(segment, res) ==
  IF segment.MarkerId \in {MARKER_DQT, MARKER_DHT}
    THEN [seg |-> segment, keep |-> FALSE, result |-> res]
    ELSE processSegment_keepCOM(segment, res)

\* processSegment that counts a dropped APP13 segment under IPTC
processSegment_irbAsIPTC(segment, res) ==
  IF segment.MarkerId = MARKER_APP13
    THEN [seg |-> segment, keep |-> FALSE,
          result |-> [res EXCEPT !.IPTC = @ + Len(segment.Data),
                                 !.Total = @ + Len(segment.Data)]]
  ELSE IF segment.MarkerId = MARKER_COM
    THEN [seg |-> segment, keep |-> FALSE,
          result |-> [res EXCEPT !.Comments = @ + Len(segment.Data),
                                 !.Total = @ + Len(segment.Data)]]
  ELSE processSegment_keepCOM(segment, res)

processSegment(segment, res) ==
  LET removedSize == Len(segment.Data)
  IN IF segment.MarkerId = MARKER_APP1
       THEN processAPP1Segment(segment, res, removedSize)
     ELSE IF segment.MarkerId = MARKER_APP13
       THEN [seg |-> segment, keep |-> FALSE,
             result |-> [res EXCEPT !.PhotoshopIRB = @ + removedSize,
                                    !.Total = @ + removedSize]]
     ELSE IF segment.MarkerId = MARKER_COM
       THEN [seg |-> segment, keep |-> FALSE,
             result |-> [res EXCEPT !.Comments = @ + removedSize,
                                    !.Total = @ + removedSize]]
     ELSE IF segment.MarkerId \in {MARKER_APP2, MARKER_APP14, MARKER_SOF0, MARKER_SOF1,
                                   MARKER_SOF2, MARKER_DQT, MARKER_DHT, MARKER_SOS,
                                   MARKER_SOI, MARKER_EOI}
       THEN [seg |-> segment, keep |-> TRUE, result |-> res]
     ELSE [seg |-> segment, keep |-> TRUE, result |-> res]

\* segment.Data after processSegment: only the EXIF path hands it to code
\* that stores into byte slices
processSegmentArg(segment) ==
  IF segment.MarkerId = MARKER_APP1 /\ ~isXMPSegment(segment) /\ isExifSegment(segment)
    THEN cleanExifSegmentArg(segment.Data)
    ELSE segment.Data

\* ------------------------------------------------------------------------
\* The container collaborator (go-jpeg-image-structure): SegmentList.Write
\* emits FF, the marker id, a 2-byte big-endian length (payload + 2) for
\* every marker but SOI / EOI, then the payload; ParseBytes is its inverse
\* and records each segment's offset in the stream.
\* ------------------------------------------------------------------------
SegmentBytes(s) ==
  <<255, s.MarkerId>> \o
  (IF s.MarkerId \in {MARKER_SOI, MARKER_EOI}
     THEN <<>> ELSE PutUint16(Len(s.Data) + 2, FALSE) \o s.Data)

RECURSIVE Write(_)
Write(segs) == IF segs = <<>> THEN <<>> ELSE SegmentBytes(Head(segs)) \o Write(Tail(segs))

\* the segment list of a stream made of the given (marker id, payload) pairs
RECURSIVE WithOffsets(_, _)
WithOffsets(segs, at) ==
  IF segs = <<>> THEN <<>>
  ELSE <<Seg(Head(segs).MarkerId, at, Head(segs).Data)>> \o
       WithOffsets(Tail(segs), at + Len(SegmentBytes(Head(segs))))

ParseBytes(segs) == WithOffsets(segs, 0)

\* the parser on raw bytes: a stream is read marker by marker from offset
\* at up to the EOI marker; a byte that is not FF where a marker is due, a
\* length field or a payload running past the end, and a stream that ends
\* before EOI are errors (ok = FALSE)
ParseFailed == [ok |-> FALSE, segs |-> <<>>]

RECURSIVE parseFrom(_, _)
parseFrom(b, at) ==
  IF at + 2 > Len(b) \/ b[at + 1] # 255 THEN ParseFailed
  ELSE IF b[at + 2] = MARKER_EOI
    THEN [ok |-> TRUE, segs |-> <<Seg(MARKER_EOI, at, <<>>)>>]
  ELSE IF b[at + 2] = MARKER_SOI
    THEN With(parseFrom(b, at + 2), LAMBDA r :
           IF r.ok THEN [ok |-> TRUE, segs |-> <<Seg(MARKER_SOI, at, <<>>)>> \o r.segs]
                   ELSE ParseFailed)
  ELSE IF at + 4 > Len(b) \/ BigEndianUint16(b, at + 2) < 2
          \/ at + 2 + BigEndianUint16(b, at + 2) > Len(b)
    THEN ParseFailed
  ELSE With(parseFrom(b, at + 2 + BigEndianUint16(b, at + 2)), LAMBDA r :
         IF r.ok
           THEN [ok |-> TRUE,
                 segs |-> <<Seg(b[at + 2], at,
                                Slice(b, at + 4, at + 2 + BigEndianUint16(b, at + 2)))>>
                          \o r.segs]
           ELSE ParseFailed)

\* a stream starts with SOI
ParseStream(b) ==
  IF Len(b) < 2 \/ b[1] # 255 \/ b[2] # MARKER_SOI THEN ParseFailed
  ELSE parseFrom(b, 0)

\* ------------------------------------------------------------------------
\* Input space: EXIF blobs
\*
\* A blob is laid out as  "Exif\0\0" | byte order, 42, IFD0 offset 8 |
\* IFD0 (count, entries, next-IFD slot) | 8 value bytes | an Exif sub-IFD
\* holding one LensModel entry | an IFD1 stub followed by 2 thumbnail bytes.
\* With n IFD0 entries the TIFF-relative offsets of the three areas are:
\* ------------------------------------------------------------------------
ValOff(n) == 14 + 12 * n
SubIfdOff(n) == 22 + 12 * n
Ifd1Off(n) == 40 + 12 * n
BlobLen(n) == 54 + 12 * n

EntryKinds == {"make", "model0", "makernote", "gps", "orient", "xres", "exififd"}

EntryBytes(tag, type, count, value4, le) ==
  PutUint16(tag, le) \o PutUint16(type, le) \o PutUint32(count, le) \o value4

\* one 12-byte IFD0 entry of the given kind in a blob of n entries
Entry(kind, n, le) ==
  CASE kind = "make"      -> EntryBytes(271, 2, 8, PutUint32(ValOff(n), le), le)
    [] kind = "model0"    -> EntryBytes(272, 2, 0, PutUint32(0, le), le)
    [] kind = "makernote" -> EntryBytes(37500, 7, 8, PutUint32(ValOff(n), le), le)
    [] kind = "gps"       -> EntryBytes(34853, 4, 1, PutUint32(SubIfdOff(n), le), le)
    [] kind = "orient"    -> EntryBytes(274, 3, 1, PutUint16(6, le) \o <<0, 0>>, le)
    [] kind = "xres"      -> EntryBytes(282, 5, 1, PutUint32(ValOff(n), le), le)
    [] kind = "exififd"   -> EntryBytes(34665, 4, 1, PutUint32(SubIfdOff(n), le), le)

RECURSIVE Entries(_, _, _)
Entries(kinds, n, le) ==
  IF kinds = <<>> THEN <<>> ELSE Entry(Head(kinds), n, le) \o Entries(Tail(kinds), n, le)

\* where the next-IFD slot of IFD0 points
NextKinds == {"none", "ifd1", "vals", "back", "end", "past"}

NextOffset(next, n) ==
  CASE next = "none" -> 0
    [] next = "ifd1" -> Ifd1Off(n)
    [] next = "vals" -> ValOff(n)
    [] next = "back" -> 8
    [] next = "end"  -> BlobLen(n) - 6
    [] next = "past" -> BlobLen(n) - 6 + 300

BlobTail(le) ==
  <<72, 0, 0, 0, 1, 0, 0, 0>> \o
  PutUint16(1, le) \o EntryBytes(42036, 2, 4, <<76, 53, 48, 0>>, le) \o PutUint32(0, le) \o
  PutUint16(0, le) \o PutUint32(0, le) \o <<255, 216>>

BuildExif(le, kinds, next) ==
  LET n == Len(kinds)
  IN ExifHeader \o (IF le THEN <<73, 73>> ELSE <<77, 77>>) \o PutUint16(42, le) \o
     PutUint32(8, le) \o PutUint16(n, le) \o Entries(kinds, n, le) \o
     PutUint32(NextOffset(next, n), le) \o BlobTail(le)

\* how much of a blob is left when it is cut short: inside the TIFF header,
\* before the IFD0 entry count, inside the entry table, inside the next-IFD slot
CutKinds == {"tiff", "ifd0", "table", "slot"}

CutLen(cut, n) ==
  CASE cut = "tiff"  -> 13
    [] cut = "ifd0"  -> 15
    [] cut = "table" -> 17
    [] cut = "slot"  -> 19 + 12 * n

\* IFD entries are sorted by ascending tag (TIFF 6.0, section 2): the entry
\* lists are the sub-lists of EntryOrder of at most MaxEntries entries
EntryOrder == <<"make", "model0", "orient", "xres", "exififd", "gps", "makernote">>

KindSeqs ==
  {SelectSeq(EntryOrder, LAMBDA k : k \in S) :
     S \in {T \in SUBSET EntryKinds : Cardinality(T) <= MaxEntries}}

WellFormedBlobs ==
  {BuildExif(le, kinds, next) : le \in BOOLEAN, kinds \in KindSeqs, next \in NextKinds}

CutBlobs ==
  {SubSeq(BuildExif(le, kinds, "ifd1"), 1, CutLen(cut, Len(kinds))) :
     le \in BOOLEAN, kinds \in KindSeqs, cut \in CutKinds}

Blobs == WellFormedBlobs \cup CutBlobs

\* ------------------------------------------------------------------------
\* Input space: segment lists  SOI, up to MaxSegs segments, EOI
\* ------------------------------------------------------------------------
SegKinds == {"exif", "xmp", "com", "app13", "icc", "foreign", "unknown"}

\* kinds used in the segment lists without an EXIF segment only: a second
\* comment, an APP1 with no payload, an APP1 one byte short of the EXIF
\* signature, and the segments an image is decoded from (quantization
\* table, frame header, Huffman table, scan)
ExtraKinds == {"com2", "empty", "short", "dqt", "sof0", "dht", "sos"}

\* the (marker id, payload) of a segment kind; blob is the EXIF payload used,
\* "foreign" is an APP1 one byte short of the XMP signature, "unknown" an
\* APP5 (0xE5), a marker processSegment does not name
KindSeg(kind, blob) ==
  CASE kind = "exif"    -> Seg(MARKER_APP1, 0, blob)
    [] kind = "xmp"     -> Seg(MARKER_APP1, 0, XMPHeader \o <<60, 120, 62>>)
    [] kind = "com"     -> Seg(MARKER_COM, 0, <<104, 105>>)
    [] kind = "app13"   -> Seg(MARKER_APP13, 0, <<80, 104, 111, 116, 111>>)
    [] kind = "icc"     -> Seg(MARKER_APP2, 0, <<73, 67, 67, 95>>)
    [] kind = "foreign" -> Seg(MARKER_APP1, 0, SubSeq(XMPHeader, 1, 28))
    [] kind = "unknown" -> Seg(229, 0, <<1, 2, 3>>)
    [] kind = "com2"    -> Seg(MARKER_COM, 0, <<98, 121, 101>>)
    [] kind = "empty"   -> Seg(MARKER_APP1, 0, <<>>)
    [] kind = "short"   -> Seg(MARKER_APP1, 0, SubSeq(ExifHeader, 1, 5))
    [] kind = "dqt"     -> Seg(MARKER_DQT, 0, <<0, 16, 11>>)
    [] kind = "sof0"    -> Seg(MARKER_SOF0, 0, <<8, 0, 1, 0, 1, 1, 1, 17, 0>>)
    [] kind = "dht"     -> Seg(MARKER_DHT, 0, <<0, 1, 0>>)
    [] kind = "sos"     -> Seg(MARKER_SOS, 0, <<1, 1, 0, 0, 63, 0, 210, 207>>)

\* the segment lists hold each kind at most once, in this order
SegOrder ==
  <<"icc", "com", "exif", "xmp", "app13", "foreign", "unknown", "com2", "empty", "short",
    "dqt", "sof0", "dht", "sos">>

Layouts ==
  {SelectSeq(SegOrder, LAMBDA k : k \in S) :
     S \in {T \in SUBSET (SegKinds \cup ExtraKinds) :
             /\ Cardinality(T) <= MaxSegs
             /\ "exif" \in T => T \subseteq SegKinds}}

HasExif(layout) == \E i \in 1..Len(layout) : layout[i] = "exif"

SegList(layout, blob) ==
  ParseBytes(<<Seg(MARKER_SOI, 0, <<>>)>> \o
             [i \in 1..Len(layout) |-> KindSeg(layout[i], blob)] \o
             <<Seg(MARKER_EOI, 0, <<>>)>>)

Inputs ==
  {SegList(layout, <<>>) : layout \in {l \in Layouts : ~HasExif(l)}} \cup
  {SegList(layout, blob) : layout \in {l \in Layouts : HasExif(l)}, blob \in Blobs}

\* the inputs the parser rejects: no bytes, "This is not a JPEG", a lone SOI
RejectedInputs ==
  { <<>>,
    <<84, 104, 105, 115, 32, 105, 115, 32, 110, 111, 116, 32, 97, 32, 74, 80, 69, 71>>,
    <<255, 216>> }

\* the byte strings handed to Strip
InputData == {Write(s) : s \in Inputs} \cup RejectedInputs

\* ------------------------------------------------------------------------
\* State: one Strip call at a time, a second call on the first call's output
\* ------------------------------------------------------------------------
VARIABLES
  jpegData,     \* the bytes the current call was given
  ret,          \* what the call returned: bytes, Result (<<>> for nil), error
  segments,     \* sl.Segments(): the parsed input of the current call
  idx,          \* number of segments the range loop has handled
  newSegments,  \* the cleaned segment list built so far
  result,       \* the Result of the current call
  pc,           \* "start" at entry, "loop" while ranging over the segments,
                \* "done" after the return of line 67, "error" after an error return
  output,       \* b.Bytes(), set when the call returns
  call,         \* 1 for the first call, 2 for the call on its output
  first         \* input, cleaned list, output and Result of the first call

vars == <<jpegData, ret, segments, idx, newSegments, result, pc, output, call, first>>

\* no call has returned yet
NoReturn == [data |-> <<>>, result |-> <<>>, err |-> FALSE]

\* return nil, nil, fmt.Errorf(...)
ErrorReturn_partial == [data |-> Write(newSegments), result |-> <<result>>, err |-> TRUE]
ErrorReturn == [data |-> <<>>, result |-> <<>>, err |-> TRUE]

NoCall == [segments |-> <<>>, newSegments |-> <<>>, output |-> <<>>, result |-> NewResult]

Init ==
  /\ jpegData \in InputData
  /\ ret = NoReturn
  /\ segments = <<>>
  /\ idx = 0
  /\ newSegments = <<>>
  /\ result = NewResult
  /\ pc = "start"
  /\ output = <<>>
  /\ call = 1
  /\ first = NoCall

\* ParseBytes and the type assertion: the segment list, or the error return
Parse ==
  /\ pc = "start"
  /\ LET p == ParseStream(jpegData)
     IN IF p.ok
          THEN /\ segments' = p.segs
               /\ pc' = "loop"
               /\ ret' = ret
          ELSE /\ segments' = segments
               /\ pc' = "error"
               /\ ret' = ErrorReturn
  /\ UNCHANGED <<jpegData, idx, newSegments, result, output, call, first>>

\* a range loop that starts over after the last segment
ProcessNext_rewind ==
  /\ pc = "loop"
  /\ idx < Len(segments)
  /\ idx' = (idx + 1) % Len(segments)
  /\ UNCHANGED <<jpegData, ret, segments, newSegments, result, pc, output, call, first>>

\* one iteration of the range loop of Strip
ProcessNext ==
  /\ pc = "loop"
  /\ idx < Len(segments)
  /\ LET p == processSegment(segments[idx + 1], result)
     IN /\ newSegments' = IF p.keep THEN Append(newSegments, p.seg) ELSE newSegments
        /\ result' = p.result
  /\ segments' = [segments EXCEPT ![idx + 1].Data = processSegmentArg(segments[idx + 1])]
  /\ idx' = idx + 1
  /\ UNCHANGED <<jpegData, ret, pc, output, call, first>>

\* NewSegmentList, Write and the return of Strip
WriteOut ==
  /\ pc = "loop"
  /\ idx = Len(segments)
  /\ output' = Write(newSegments)
  /\ ret' = [data |-> Write(newSegments), result |-> <<result>>, err |-> FALSE]
  /\ pc' = "done"
  /\ UNCHANGED <<jpegData, segments, idx, newSegments, result, call, first>>

\* Write returns an error (the serializer is the library's; whether it fails
\* is its choice): the error return of lines 63-65
WriteFail ==
  /\ pc = "loop"
  /\ idx = Len(segments)
  /\ ret' = ErrorReturn
  /\ pc' = "error"
  /\ UNCHANGED <<jpegData, segments, idx, newSegments, result, output, call, first>>

\* a second call that goes on with the Result of the first
StripAgain_carry ==
  /\ pc = "done"
  /\ call = 1
  /\ first' = [segments |-> segments, newSegments |-> newSegments,
               output |-> output, result |-> result]
  /\ jpegData' = ret.data
  /\ ret' = NoReturn
  /\ segments' = <<>>
  /\ idx' = 0
  /\ newSegments' = <<>>
  /\ result' = result
  /\ output' = <<>>
  /\ pc' = "start"
  /\ call' = 2

\* the caller hands the returned bytes to Strip again: a fresh Result
StripAgain ==
  /\ pc = "done"
  /\ call = 1
  /\ first' = [segments |-> segments, newSegments |-> newSegments,
               output |-> output, result |-> result]
  /\ jpegData' = ret.data
  /\ ret' = NoReturn
  /\ segments' = <<>>
  /\ idx' = 0
  /\ newSegments' = <<>>
  /\ result' = NewResult
  /\ output' = <<>>
  /\ pc' = "start"
  /\ call' = 2

Next == Parse \/ ProcessNext \/ WriteOut \/ WriteFail \/ StripAgain

Spec == Init /\ [][Next]_vars

\* a call that has been entered runs on: Strip is sequential code with no
\* blocking operation, so the step it is at is taken.  Whether the caller
\* calls again (StripAgain) is left open.
\* The calls followed under this condition are those on the rejected
\* inputs, on every segment list without an EXIF segment, and on every EXIF
\* payload as the only segment between SOI and EOI.
InputDataFair ==
  {Write(SegList(layout, <<>>)) : layout \in {l \in Layouts : ~HasExif(l)}} \cup
  {Write(SegList(<<"exif">>, blob)) : blob \in Blobs} \cup RejectedInputs

InitFair == Init /\ jpegData \in InputDataFair

\* the same calls with no fairness condition: the specification under which
\* the statements about what the sub-edits do to one EXIF payload are checked
SpecExif == InitFair /\ [][Next]_vars

SpecFair ==
  InitFair /\ [][Next]_vars /\ WF_vars(Parse \/ ProcessNext \/ WriteOut \/ WriteFail)

\* ------------------------------------------------------------------------
\* Calls on EXIF payloads made for the camera accounting: IFD0 holds up to
\* MaxEntries entries drawn from a pool with every value type 0..13 under a
\* deny-set tag with a 24-bit count, a Model entry of count 0, a Make entry
\* of 5 SHORTs and an Orientation entry; next-IFD offset 0, both byte orders.
\* ------------------------------------------------------------------------
CamTagFor(t) ==
  CASE t % 4 = 0 -> 271
    [] t % 4 = 1 -> 272
    [] t % 4 = 2 -> 37500
    [] t % 4 = 3 -> 40965

CamEntryPool ==
  {<<CamTagFor(t), t, 16777215>> : t \in 0..13} \cup
  {<<272, 2, 0>>, <<271, 3, 5>>, <<274, 3, 1>>}

CamEntryLists == UNION {[1..n -> CamEntryPool] : n \in 0..MaxEntries}

RECURSIVE CamEntries(_, _)
CamEntries(es, le) ==
  IF es = <<>> THEN <<>>
  ELSE EntryBytes(Head(es)[1], Head(es)[2], Head(es)[3], <<0, 0, 0, 0>>, le)
       \o CamEntries(Tail(es), le)

CamBlob(le, es) ==
  ExifHeader \o (IF le THEN <<73, 73>> ELSE <<77, 77>>) \o PutUint16(42, le) \o
  PutUint32(8, le) \o PutUint16(Len(es), le) \o CamEntries(es, le) \o PutUint32(0, le)

InputDataCam ==
  {Write(SegList(<<"exif">>, CamBlob(le, es))) : le \in BOOLEAN, es \in CamEntryLists}

InitCam ==
  /\ jpegData \in InputDataCam
  /\ ret = NoReturn
  /\ segments = <<>>
  /\ idx = 0
  /\ newSegments = <<>>
  /\ result = NewResult
  /\ pc = "start"
  /\ output = <<>>
  /\ call = 1
  /\ first = NoCall

SpecCam == InitCam /\ [][Next]_vars

\* ------------------------------------------------------------------------
\* Calls on APP1 payloads made of arbitrary field values: a 48-byte layout
\* (signature, TIFF header, entry count, a Make and a GPS entry, next-IFD
\* slot, 4 more bytes) whose declared IFD0 offset, entry count and next-IFD
\* offset are drawn independently of where things are, cut to any of a set
\* of lengths from 0 to 48.
\* ------------------------------------------------------------------------
FieldOffsets == {0, 8, 30, 41, 42, 300}
FieldCounts == {0, 2, 3, 65535}
FieldNexts == {0, 8, 26, 42, 300}
FieldLengths == {0, 5, 6, 13, 14, 15, 16, 27, 28, 32, 40, 43, 44, 47, 48}

FieldBlob(le, off, cnt, next) ==
  ExifHeader \o (IF le THEN <<73, 73>> ELSE <<77, 77>>) \o PutUint16(42, le) \o
  PutUint32(off, le) \o PutUint16(cnt, le) \o
  EntryBytes(271, 2, 4, <<65, 66, 67, 0>>, le) \o
  EntryBytes(34853, 4, 1, PutUint32(44, le), le) \o
  PutUint32(next, le) \o <<1, 0, 2, 0>>

FieldBlobs ==
  {SubSeq(FieldBlob(le, off, cnt, next), 1, len) :
     le \in BOOLEAN, off \in FieldOffsets, cnt \in FieldCounts,
     next \in FieldNexts, len \in FieldLengths}

InputDataBlob == {Write(SegList(<<"exif">>, blob)) : blob \in FieldBlobs}

InitBlob ==
  /\ jpegData \in InputDataBlob
  /\ ret = NoReturn
  /\ segments = <<>>
  /\ idx = 0
  /\ newSegments = <<>>
  /\ result = NewResult
  /\ pc = "start"
  /\ output = <<>>
  /\ call = 1
  /\ first = NoCall

SpecBlob == InitBlob /\ [][Next]_vars

TypeOK ==
  /\ idx \in 0..Len(segments)
  /\ pc \in {"start", "loop", "done", "error"}
  /\ ret.err = (pc = "error")
  /\ (pc = "loop" /\ call = 1) => segments \in Inputs
  /\ (pc = "loop" /\ call = 2) => segments = ParseBytes(first.newSegments)
  /\ call \in {1, 2}
  /\ Len(newSegments) <= idx

\* ========================================================================
\* Properties
\* ========================================================================
\* the byte stream the current call was given
InputBytes == Write(segments)

Done == pc = "done"

\* the segment of list segs that sits at stream offset off (offsets are
\* unique in a parsed list, and Strip copies them to the segments it keeps)
HasOffset(segs, off) == \E i \in 1..Len(segs) : segs[i].Offset = off
AtOffset(segs, off) == segs[CHOOSE i \in 1..Len(segs) : segs[i].Offset = off]

IsExifPayload(d) == HasPrefix(d, ExifHeader)
IsXMPPayload(d) == HasPrefix(d, XMPHeader)

\* ---- a reader of the TIFF structure of an EXIF payload (TIFF 6.0 / EXIF)
TiffLE(d) == d[7] = 73 /\ d[8] = 73
Ifd0Pos(d) == 6 + readUint32(d, 10, TiffLE(d))
Ifd0Count(d) == readUint16(d, Ifd0Pos(d), TiffLE(d))
Ifd0EntryPos(d, i) == Ifd0Pos(d) + 2 + 12 * i
Ifd0SlotPos(d) == Ifd0Pos(d) + 2 + 12 * Ifd0Count(d)
Ifd0NextOffset(d) == readUint32(d, Ifd0SlotPos(d), TiffLE(d))

\* the payload has the EXIF signature, a TIFF header, and an IFD0 whose
\* entry table and next-IFD slot lie inside it
ValidExif(d) ==
  /\ IsExifPayload(d)
  /\ Len(d) >= 14
  /\ Len(d) >= Ifd0Pos(d) + 2
  /\ Len(d) >= Ifd0SlotPos(d) + 4

MalformedExif(d) == IsExifPayload(d) /\ ~ValidExif(d)

EntryTag(d, i) == readUint16(d, Ifd0EntryPos(d, i), TiffLE(d))
EntryType(d, i) == readUint16(d, Ifd0EntryPos(d, i) + 2, TiffLE(d))
EntryCount(d, i) == readUint32(d, Ifd0EntryPos(d, i) + 4, TiffLE(d))
EntryValue(d, i) == readUint32(d, Ifd0EntryPos(d, i) + 8, TiffLE(d))

\* the EXIF APP1 segments of a list
ExifSegs(segs) ==
  {i \in 1..Len(segs) : segs[i].MarkerId = MARKER_APP1 /\ IsExifPayload(segs[i].Data)}

\* ------------------------------------------------------------------------
\* C1  Monotonic shrink: when Strip returns, the output stream is no longer
\* than the input stream, the cleaned list has no more segments than the
\* input list, and every kept segment's payload is no longer than the payload
\* of the input segment it came from (the one at the same stream offset).
\* ------------------------------------------------------------------------
C1_MonotonicShrink ==
  Done =>
    /\ Len(output) <= Len(InputBytes)
    /\ Len(newSegments) <= Len(segments)
    /\ \A k \in 1..Len(newSegments) :
         /\ HasOffset(segments, newSegments[k].Offset)
         /\ Len(newSegments[k].Data) <= Len(AtOffset(segments, newSegments[k].Offset).Data)

\* a call that dropped a segment and truncated an EXIF payload
C1_Witness ==
  /\ Done /\ call = 1
  /\ Len(output) < Len(InputBytes)
  /\ Len(newSegments) < Len(segments)
  /\ \E k \in 1..Len(newSegments) :
       /\ HasOffset(segments, newSegments[k].Offset)
       /\ Len(newSegments[k].Data) < Len(AtOffset(segments, newSegments[k].Offset).Data)

\* ------------------------------------------------------------------------
\* C2  Order and pass-through: when Strip returns, the cleaned list is the
\* input list in the same relative order with entries dropped or replaced:
\* the kept segments carry strictly increasing input offsets and the marker
\* id of the input segment at that offset (so a replaced EXIF segment keeps
\* marker id and position), and the segments whose marker is not APP1, APP13
\* or COM are exactly those of the input, each once, payload included.
\* ------------------------------------------------------------------------
IsPassThrough(s) == s.MarkerId \notin {MARKER_APP1, MARKER_APP13, MARKER_COM}

C2_OrderAndPassThrough ==
  Done =>
    /\ \A k \in 1..Len(newSegments) :
         /\ HasOffset(segments, newSegments[k].Offset)
         /\ AtOffset(segments, newSegments[k].Offset).MarkerId = newSegments[k].MarkerId
         /\ k > 1 => newSegments[k - 1].Offset < newSegments[k].Offset
    /\ SelectSeq(newSegments, IsPassThrough) = SelectSeq(segments, IsPassThrough)

\* a call that replaced an EXIF payload and passed an unrecognized marker on
C2_Witness ==
  /\ Done /\ call = 1
  /\ \E k \in 1..Len(newSegments) :
       /\ newSegments[k].MarkerId = MARKER_APP1
       /\ newSegments[k].Data # AtOffset(segments, newSegments[k].Offset).Data
  /\ \E k \in 1..Len(newSegments) :
       newSegments[k].MarkerId \notin
         {MARKER_APP2, MARKER_APP14, MARKER_SOF0, MARKER_SOF1, MARKER_SOF2, MARKER_DQT,
          MARKER_DHT, MARKER_SOS, MARKER_SOI, MARKER_EOI, MARKER_APP1}

\* ------------------------------------------------------------------------
\* C3  Idempotence: the call of Strip on the output of a first call returns
\* the same bytes and a Result whose counters and Total are all zero.
\* ------------------------------------------------------------------------
C3_Idempotent ==
  (Done /\ call = 2) => (output = first.output /\ result = NewResult)

\* the payload Strip returned for the input segment at position i
OutData(i) == AtOffset(newSegments, segments[i].Offset).Data

\* Strip kept the input segment at position i (replaced or not)
Kept(i) == HasOffset(newSegments, segments[i].Offset)

\* ------------------------------------------------------------------------
\* C4  Thumbnail removal: when Strip returns, for every EXIF segment of the
\* input whose blob passes the editor's validation and whose IFD0 next-IFD
\* offset N is not 0, the output segment holds no byte at or after position
\* 6 + N and its IFD0 next-IFD slot (where the output still holds it) reads 0.
\* ------------------------------------------------------------------------
C4_ThumbnailRemoved ==
  Done =>
    \A i \in ExifSegs(segments) :
      LET d == segments[i].Data
      IN (ValidExif(d) /\ Ifd0NextOffset(d) # 0) =>
           /\ Kept(i)
           /\ Len(OutData(i)) <= 6 + Ifd0NextOffset(d)
           /\ Len(OutData(i)) >= Ifd0SlotPos(d) + 4 =>
                readUint32(OutData(i), Ifd0SlotPos(d), TiffLE(d)) = 0

\* ------------------------------------------------------------------------
\* C5  GPS removal: when Strip returns, for every EXIF segment of the input
\* whose blob passes validation, every IFD0 entry with tag 0x8825 and a
\* non-zero offset has an offset field of 0 in the output segment (where the
\* output still holds the entry).
\* ------------------------------------------------------------------------
C5_GpsRemoved ==
  Done =>
    \A i \in ExifSegs(segments) :
      LET d == segments[i].Data
      IN ValidExif(d) =>
           \A j \in 0..(Ifd0Count(d) - 1) :
             (EntryTag(d, j) = 34853 /\ EntryValue(d, j) # 0) =>
               /\ Kept(i)
               /\ Len(OutData(i)) >= Ifd0EntryPos(d, j) + 12 =>
                    readUint32(OutData(i), Ifd0EntryPos(d, j) + 8, TiffLE(d)) = 0

\* ------------------------------------------------------------------------
\* C6  Camera-tag removal: when Strip returns, for every EXIF segment of the
\* input whose blob passes validation, no IFD0 entry held by the output
\* segment carries the tag Make, Model, MakerNote or Interoperability-IFD
\* pointer, whatever its type and count.
\* ------------------------------------------------------------------------
C6_CameraTagsRemoved ==
  Done =>
    \A i \in ExifSegs(segments) :
      LET d == segments[i].Data
      IN ValidExif(d) =>
           /\ Kept(i)
           /\ \A j \in 0..(Ifd0Count(d) - 1) :
                Len(OutData(i)) >= Ifd0EntryPos(d, j) + 12 =>
                  readUint16(OutData(i), Ifd0EntryPos(d, j), TiffLE(d))
                    \notin {271, 272, 37500, 40965}

\* ------------------------------------------------------------------------
\* C7  Lens data removal: when Strip returns, no EXIF segment of the output
\* holds a LensModel tag (0xA434) in the Exif sub-IFD that IFD0's tag 0x8769
\* points to.
\* ------------------------------------------------------------------------
\* the directory at TIFF offset off of d lies inside d and holds the tag
IfdHasTag(d, off, tag) ==
  /\ Len(d) >= 6 + off + 2
  /\ \E k \in 0..(readUint16(d, 6 + off, TiffLE(d)) - 1) :
       /\ Len(d) >= 6 + off + 2 + 12 * k + 12
       /\ readUint16(d, 6 + off + 2 + 12 * k, TiffLE(d)) = tag

HasLensTag(d) ==
  /\ ValidExif(d)
  /\ \E j \in 0..(Ifd0Count(d) - 1) :
       /\ EntryTag(d, j) = 34665
       /\ IfdHasTag(d, EntryValue(d, j), 42036)

C7_LensRemoved ==
  Done =>
    \A i \in ExifSegs(segments) :
      HasLensTag(segments[i].Data) => (Kept(i) /\ ~HasLensTag(OutData(i)))

\* ------------------------------------------------------------------------
\* C8  Container-level removal: the cleaned list never holds a COM segment,
\* an APP13 segment, or an APP1 segment whose payload starts with the
\* 29-byte XMP signature; nor does the list Strip returns.
\* ------------------------------------------------------------------------
C8_ContainerRemoval ==
  \A k \in 1..Len(newSegments) :
    /\ newSegments[k].MarkerId \notin {MARKER_COM, MARKER_APP13}
    /\ ~(newSegments[k].MarkerId = MARKER_APP1 /\ IsXMPPayload(newSegments[k].Data))

\* a returned call whose input held an XMP segment and a COM segment
C8_Witness ==
  /\ Done /\ call = 1
  /\ \E i \in 1..Len(segments) :
       segments[i].MarkerId = MARKER_APP1 /\ IsXMPPayload(segments[i].Data)
  /\ \E i \in 1..Len(segments) : segments[i].MarkerId = MARKER_COM

\* ------------------------------------------------------------------------
\* C9  Preservation: when Strip returns, for every EXIF segment of the input
\* whose blob passes validation, every IFD0 entry whose tag is neither in
\* the camera deny-set nor the GPS pointer is in the output segment with the
\* same 12 bytes, and so are the value bytes it references; and every APP2
\* segment of the input is in the output unchanged.
\* ------------------------------------------------------------------------
\* the number of value bytes of IFD0 entry j (TIFF: type size times count)
EntryValueSize(d, j) == typeSize(EntryType(d, j)) * EntryCount(d, j)

C9_Preserved ==
  Done =>
    /\ \A i \in ExifSegs(segments) :
         LET d == segments[i].Data
         IN ValidExif(d) =>
              \A j \in 0..(Ifd0Count(d) - 1) :
                EntryTag(d, j) \notin {271, 272, 37500, 40965, 34853} =>
                  /\ Kept(i)
                  /\ Len(OutData(i)) >= Ifd0EntryPos(d, j) + 12
                  /\ Slice(OutData(i), Ifd0EntryPos(d, j), Ifd0EntryPos(d, j) + 12)
                       = Slice(d, Ifd0EntryPos(d, j), Ifd0EntryPos(d, j) + 12)
                  /\ (EntryValueSize(d, j) > 4
                        /\ Len(d) >= 6 + EntryValue(d, j) + EntryValueSize(d, j)) =>
                       /\ Len(OutData(i)) >= 6 + EntryValue(d, j) + EntryValueSize(d, j)
                       /\ Slice(OutData(i), 6 + EntryValue(d, j),
                                6 + EntryValue(d, j) + EntryValueSize(d, j))
                            = Slice(d, 6 + EntryValue(d, j),
                                    6 + EntryValue(d, j) + EntryValueSize(d, j))
    /\ \A i \in 1..Len(segments) :
         segments[i].MarkerId = MARKER_APP2 => (Kept(i) /\ OutData(i) = segments[i].Data)

\* ------------------------------------------------------------------------
\* C10  Fail-closed on malformed EXIF: the loop iteration that handles an
\* APP1 segment with the EXIF signature and a malformed TIFF part (short
\* TIFF header, IFD0 position past the end, entry table or next-IFD slot
\* past the end) appends that very segment to the cleaned list, leaves every
\* counter and Total as they were, and leaves the loop going on to the next
\* segment.
\* ------------------------------------------------------------------------
AtMalformedExif ==
  /\ pc = "loop"
  /\ idx < Len(segments)
  /\ segments[idx + 1].MarkerId = MARKER_APP1
  /\ MalformedExif(segments[idx + 1].Data)

C10_FailClosed ==
  [][AtMalformedExif =>
       /\ newSegments' = Append(newSegments, segments[idx + 1])
       /\ result' = result
       /\ idx' = idx + 1
       /\ pc' = "loop"]_vars

\* a returned call whose input held a malformed EXIF segment, kept as it
\* was, followed by a segment that was dropped and counted
C10_Witness ==
  /\ Done /\ call = 1
  /\ \E i \in ExifSegs(segments) :
       /\ MalformedExif(segments[i].Data)
       /\ Kept(i) /\ OutData(i) = segments[i].Data
       /\ \E j \in (i + 1)..Len(segments) : ~Kept(j)
  /\ result.Total > 0

\* ------------------------------------------------------------------------
\* C11  Rejection: a call whose input the parser fails on (no bytes, bytes
\* that are not a JPEG stream, the 2-byte stream FF D8) ends in the error
\* return, and so does a call whose serializer fails; an error return
\* carries the error, no bytes and no Result, whatever the loop had built.
\* ------------------------------------------------------------------------
C11_Rejection ==
  /\ (pc # "start" /\ (jpegData \in RejectedInputs \/ ~ParseStream(jpegData).ok))
        => pc = "error"
  /\ pc = "error" =>
        /\ ret.err
        /\ ret.data = <<>>
        /\ ret.result = <<>>
        /\ output = <<>>
  /\ pc = "done" => (~ret.err /\ ret.result = <<result>> /\ ret.data = output)

\* the serializer failed after the loop had dropped and counted a segment
\* and kept others: nothing of it is returned
C11_Witness ==
  /\ pc = "error"
  /\ ParseStream(jpegData).ok
  /\ Len(newSegments) > 2
  /\ result.Total > 0
  /\ ret.data = <<>> /\ ret.result = <<>>

\* the parser failed on the lone SOI
C11_WitnessParse ==
  pc = "error" /\ jpegData = <<255, 216>> /\ ret = [data |-> <<>>, result |-> <<>>, err |-> TRUE]

\* the sum of the payload lengths of the segments of segs at the positions I
RECURSIVE PayloadSum(_, _)
PayloadSum(segs, I) ==
  IF I = {} THEN 0
  ELSE LET i == CHOOSE j \in I : TRUE
       IN Len(segs[i].Data) + PayloadSum(segs, I \ {i})

ComSegs(segs) == {i \in 1..Len(segs) : segs[i].MarkerId = MARKER_COM}
IrbSegs(segs) == {i \in 1..Len(segs) : segs[i].MarkerId = MARKER_APP13}
XmpSegs(segs) ==
  {i \in 1..Len(segs) : segs[i].MarkerId = MARKER_APP1 /\ IsXMPPayload(segs[i].Data)}

DroppedSum(segs) ==
  PayloadSum(segs, ComSegs(segs)) + PayloadSum(segs, IrbSegs(segs))
    + PayloadSum(segs, XmpSegs(segs))

\* ------------------------------------------------------------------------
\* C12  Dropped-segment accounting: when Strip returns, Removed.Comments is
\* the sum of the payload lengths of the input's COM segments,
\* Removed.PhotoshopIRB that of its APP13 segments, Removed.XMP that of its
\* XMP-signed APP1 segments; Total holds all of them: it is at least their
\* sum, and exactly their sum when the input has no EXIF segment.
\* ------------------------------------------------------------------------
C12_DroppedAccounting ==
  Done =>
    /\ result.Comments = PayloadSum(segments, ComSegs(segments))
    /\ result.PhotoshopIRB = PayloadSum(segments, IrbSegs(segments))
    /\ result.XMP = PayloadSum(segments, XmpSegs(segments))
    /\ result.Total >= DroppedSum(segments)
    /\ ExifSegs(segments) = {} => result.Total = DroppedSum(segments)

\* a returned call on an input with two comments of different lengths
C12_Witness ==
  /\ Done /\ call = 1
  /\ Cardinality(ComSegs(segments)) = 2
  /\ result.Comments = 5
  /\ result.Total = 5

\* a returned call that dropped an XMP segment and an APP13 segment
C12_WitnessMixed ==
  /\ Done /\ call = 1
  /\ XmpSegs(segments) # {} /\ IrbSegs(segments) # {}
  /\ result.XMP = 32 /\ result.PhotoshopIRB = 5 /\ result.Total = 37

\* the sum of the category counters of a Result
CounterSum(r) ==
  r.ExifThumbnail + r.ExifGPS + r.CameraInfo + r.XMP + r.IPTC + r.PhotoshopIRB + r.Comments

\* ------------------------------------------------------------------------
\* C13  Accounting consistency: when Strip returns, Result.Total equals the
\* sum of the category counters.
\* ------------------------------------------------------------------------
C13_TotalIsSum ==
  Done => result.Total = CounterSum(result)

\* ------------------------------------------------------------------------
\* C14  Foreign APP1 kept: the loop iteration that handles an APP1 segment
\* whose payload starts with neither "Exif\0\0" nor the 29-byte XMP
\* signature (payloads shorter than a signature and the empty payload
\* included) appends that very segment to the cleaned list and leaves every
\* counter and Total as they were.
\* ------------------------------------------------------------------------
ForeignAPP1(seg) ==
  /\ seg.MarkerId = MARKER_APP1
  /\ ~IsExifPayload(seg.Data)
  /\ ~IsXMPPayload(seg.Data)

AtForeignAPP1 ==
  /\ pc = "loop"
  /\ idx < Len(segments)
  /\ ForeignAPP1(segments[idx + 1])

C14_ForeignKept ==
  [][AtForeignAPP1 =>
       /\ newSegments' = Append(newSegments, segments[idx + 1])
       /\ result' = result]_vars

\* a returned call whose input held an APP1 with no payload and an APP1 with
\* the first five bytes of the EXIF signature: both are in the output
C14_Witness ==
  /\ Done /\ call = 1
  /\ \E i, j \in 1..Len(segments) :
       /\ ForeignAPP1(segments[i]) /\ segments[i].Data = <<>>
       /\ ForeignAPP1(segments[j]) /\ Len(segments[j].Data) = 5
       /\ Kept(i) /\ OutData(i) = <<>>
       /\ Kept(j) /\ OutData(j) = segments[j].Data
  /\ result = NewResult

\* ------------------------------------------------------------------------
\* C15  Pixel identity.  The decoder reads the picture from the frame, table
\* and scan segments of a stream; DecodeView is that part of a segment list,
\* as (marker id, payload) pairs in stream order.  When Strip returns, the
\* returned bytes parse, and their DecodeView is the DecodeView of the input.
\* ------------------------------------------------------------------------
DecodeMarkers ==
  {MARKER_SOF0, MARKER_SOF1, MARKER_SOF2, MARKER_DQT, MARKER_DHT, MARKER_SOS}

DecodeView(segs) ==
  LET d == SelectSeq(segs, LAMBDA x : x.MarkerId \in DecodeMarkers)
  IN [i \in 1..Len(d) |-> <<d[i].MarkerId, d[i].Data>>]

C15_PixelIdentity ==
  Done =>
    /\ ParseStream(output).ok
    /\ DecodeView(ParseStream(output).segs) = DecodeView(segments)

\* a returned call that dropped a segment of an input with a decoded segment
C15_Witness ==
  /\ Done /\ call = 1
  /\ Len(DecodeView(segments)) > 0
  /\ Len(newSegments) < Len(segments)
  /\ DecodeView(ParseStream(output).segs) = DecodeView(segments)

\* a returned call on an input with two decoded segments
C15_WitnessTwo ==
  Done /\ call = 1 /\ Len(DecodeView(ParseStream(output).segs)) = 2

\* ------------------------------------------------------------------------
\* C16  Purity across calls.  StripAlone(b) is what one call of Strip on b
\* returns when nothing was called before it: the parse, the range loop from
\* an empty list and a zero Result, the serialization.  Every call that
\* returns, the first and the one that follows it, returns StripAlone of its
\* own input; a second call whose input is the first call's input returns
\* what the first call returned.
\* ------------------------------------------------------------------------
RECURSIVE stripLoop(_, _, _)
stripLoop(segs, acc, res) ==
  IF segs = <<>> THEN [newSegments |-> acc, result |-> res]
  ELSE With(processSegment(Head(segs), res), LAMBDA p :
         stripLoop(Tail(segs), IF p.keep THEN Append(acc, p.seg) ELSE acc, p.result))

StripAlone(b) ==
  With(ParseStream(b), LAMBDA p :
    IF ~p.ok THEN [data |-> <<>>, result |-> <<>>, err |-> TRUE]
    ELSE With(stripLoop(p.segs, <<>>, NewResult), LAMBDA l :
           [data |-> Write(l.newSegments), result |-> <<l.result>>, err |-> FALSE]))

C16_Purity ==
  /\ Done => ret = StripAlone(jpegData)
  /\ (pc = "error" /\ ~ParseStream(jpegData).ok) => ret = StripAlone(jpegData)
  /\ (Done /\ call = 2 /\ jpegData = Write(first.segments)) =>
        (output = first.output /\ result = first.result)

\* a second call, after a first call that counted removals, on bytes that
\* still hold something to count
C16_Witness ==
  /\ Done /\ call = 2
  /\ first.result.Total > 0
  /\ CounterSum(result) # 0
  /\ ret = StripAlone(jpegData)

\* a second call on the very bytes of the first, with non-zero counters
C16_WitnessSame ==
  /\ Done /\ call = 2
  /\ jpegData = Write(first.segments)
  /\ result # NewResult /\ result = first.result

GpsScanInput(d) ==
  With(removeThumbnailFromExif(d), LAMBDA thumb : IF thumb.removed THEN thumb.data ELSE d)

CamScanInput(d) ==
  With(GpsScanInput(d), LAMBDA d1 :
    With(removeGPSFromExif(d1), LAMBDA gps : IF gps.removed THEN gps.data ELSE d1))

\* d passes the guards that precede the scan loops
ScanReached(d) ==
  /\ Len(d) >= 14
  /\ HasPrefix(d, ExifHeader)
  /\ Len(d) >= Ifd0Pos(d) + 2

ScansBounded(d) ==
  /\ (~removeThumbnailFromExif(d).err /\ ScanReached(GpsScanInput(d))) =>
        With(GpsScanInput(d), LAMBDA d1 :
          gpsScanIterations(d1, Ifd0Pos(d1), Ifd0Count(d1), TiffLE(d1), 0) <= Ifd0Count(d1))
  /\ (~removeThumbnailFromExif(d).err /\ ScanReached(CamScanInput(d))) =>
        With(CamScanInput(d), LAMBDA d2 :
          camScanIterations(d2, Ifd0Pos(d2), Ifd0Count(d2), 0) <= Ifd0Count(d2))

C18_Termination ==
  /\ (pc = "start") ~> (pc \in {"done", "error"})
  /\ [](\A i \in ExifSegs(segments) : ScansBounded(segments[i].Data))

\* a returned call on an EXIF payload whose next-IFD offset points back at
\* IFD0 itself, with entries in IFD0
C18_Witness ==
  /\ Done /\ call = 1
  /\ \E i \in ExifSegs(segments) :
       /\ ValidExif(segments[i].Data)
       /\ Ifd0Count(segments[i].Data) > 0
       /\ 6 + Ifd0NextOffset(segments[i].Data) = Ifd0Pos(segments[i].Data)

\* ------------------------------------------------------------------------
\* C19  Thumbnail sub-edit: for the EXIF payload d the loop is about to
\* handle, with IFD0's next-IFD offset N non-zero, removeThumbnailFromExif
\* returns d cut at 6 + N; what is kept holds IFD0's next-IFD slot, now 0;
\* every other kept byte is the byte of d at that index; the reported count
\* is Len(d) - (6 + N), the number of bytes the payload shrank by.
\* ------------------------------------------------------------------------
ThumbnailSubEdit(d) ==
  LET r == removeThumbnailFromExif(d)
      cut == 6 + Ifd0NextOffset(d)
      slot == Ifd0SlotPos(d)
  IN /\ ~r.err /\ r.removed
     /\ Len(r.data) = cut
     /\ slot + 4 <= Len(r.data)
     /\ Slice(r.data, slot, slot + 4) = <<0, 0, 0, 0>>
     /\ \A k \in 1..Len(r.data) : (k <= slot \/ k > slot + 4) => r.data[k] = d[k]
     /\ r.size = Len(d) - cut
     /\ r.size = Len(d) - Len(r.data)

AtExifWithThumbnail ==
  /\ pc = "loop"
  /\ idx < Len(segments)
  /\ segments[idx + 1].MarkerId = MARKER_APP1
  /\ ValidExif(segments[idx + 1].Data)
  /\ Ifd0NextOffset(segments[idx + 1].Data) # 0

C19_ThumbnailSubEdit ==
  AtExifWithThumbnail => ThumbnailSubEdit(segments[idx + 1].Data)

\* ------------------------------------------------------------------------
\* C20  Modified flag: for the EXIF payload d the loop is about to handle,
\* cleanExifSegment reports modified exactly when one of the three sub-edits
\* returned bytes that differ from the bytes it was handed; and when one
\* did, the payload of the segment processSegment returns is the payload
\* after the three sub-edits.
\* ------------------------------------------------------------------------
\* the payload after the three sub-edits
EditedBlob(d) ==
  IF removeThumbnailFromExif(d).err THEN d
  ELSE With(CamScanInput(d), LAMBDA d2 :
         With(removeCameraInfoFromExif(d2), LAMBDA cam :
           IF cam.removed THEN cam.data ELSE d2))

SubEditChanged(d) ==
  /\ ~removeThumbnailFromExif(d).err
  /\ \/ (removeThumbnailFromExif(d).removed /\ removeThumbnailFromExif(d).data # d)
     \/ With(GpsScanInput(d), LAMBDA d1 :
          removeGPSFromExif(d1).removed /\ removeGPSFromExif(d1).data # d1)
     \/ With(CamScanInput(d), LAMBDA d2 :
          removeCameraInfoFromExif(d2).removed /\ removeCameraInfoFromExif(d2).data # d2)

AtExif ==
  /\ pc = "loop"
  /\ idx < Len(segments)
  /\ segments[idx + 1].MarkerId = MARKER_APP1
  /\ IsExifPayload(segments[idx + 1].Data)

C20_ModifiedFlag ==
  AtExif =>
    With(segments[idx + 1].Data, LAMBDA d :
      /\ cleanExifSegment(d, result).modified = SubEditChanged(d)
      /\ SubEditChanged(d) => processSegment(segments[idx + 1], result).seg.Data = EditedBlob(d))

\* ------------------------------------------------------------------------
\* C21  Verbatim means uncounted: the loop iteration that handles an EXIF
\* APP1 segment for which cleanExifSegment reports no modification appends
\* that very segment and leaves every counter and Total as they were.
\* ------------------------------------------------------------------------
C21_VerbatimUncounted ==
  [][(AtExif /\ ~cleanExifSegment(segments[idx + 1].Data, result).modified) =>
       /\ newSegments' = Append(newSegments, segments[idx + 1])
       /\ result' = result]_vars

\* ------------------------------------------------------------------------
\* C22  Sub-edit sequencing: for the EXIF payload d the loop is about to
\* handle, a validation failure of the thumbnail sub-edit makes
\* cleanExifSegment return d unmodified with no counter changed; otherwise
\* the GPS sub-edit is run on what the thumbnail sub-edit left and the
\* camera sub-edit on what the GPS sub-edit left, whether or not the earlier
\* ones removed anything: each counter grows by what its sub-edit reports on
\* that argument, and the bytes returned are those after the third.
\* ------------------------------------------------------------------------
SizeIfRemoved(r) == IF r.removed THEN r.size ELSE 0

C22_Sequencing ==
  AtExif =>
    With(segments[idx + 1].Data, LAMBDA d :
      With(cleanExifSegment(d, result), LAMBDA c :
        IF removeThumbnailFromExif(d).err
          THEN c.data = d /\ ~c.modified /\ c.removed = 0 /\ c.result = result
          ELSE
            /\ c.data = EditedBlob(d)
            /\ c.result.ExifThumbnail =
                 result.ExifThumbnail + SizeIfRemoved(removeThumbnailFromExif(d))
            /\ c.result.ExifGPS =
                 result.ExifGPS + SizeIfRemoved(removeGPSFromExif(GpsScanInput(d)))
            /\ c.result.CameraInfo =
                 result.CameraInfo + SizeIfRemoved(removeCameraInfoFromExif(CamScanInput(d)))
            /\ c.removed = SizeIfRemoved(removeThumbnailFromExif(d))
                           + SizeIfRemoved(removeGPSFromExif(GpsScanInput(d)))
                           + SizeIfRemoved(removeCameraInfoFromExif(CamScanInput(d)))))

\* a returned call on a payload with no thumbnail to remove (next-IFD
\* offset 0) whose GPS pointer and camera entry were both counted
C22_Witness ==
  /\ Done /\ call = 1
  /\ \E i \in ExifSegs(segments) :
       /\ ValidExif(segments[i].Data)
       /\ Ifd0NextOffset(segments[i].Data) = 0
       /\ Kept(i) /\ OutData(i) = EditedBlob(segments[i].Data)
  /\ result.ExifThumbnail = 0 /\ result.ExifGPS > 0 /\ result.CameraInfo > 0

\* a returned call where the thumbnail cut took IFD0 away before the GPS
\* sub-edit ran: the input held a GPS pointer, none was counted
C22_WitnessOrder ==
  /\ Done /\ call = 1
  /\ \E i \in ExifSegs(segments) :
       /\ ValidExif(segments[i].Data)
       /\ removeGPSFromExif(segments[i].Data).removed
       /\ ~removeGPSFromExif(GpsScanInput(segments[i].Data)).removed
  /\ result.ExifThumbnail > 0 /\ result.ExifGPS = 0

\* ------------------------------------------------------------------------
\* C23  Camera sub-edit frame: for the bytes d2 the camera sub-edit is
\* handed, at every EXIF segment the loop meets, and for that segment's own
\* payload: when removeCameraInfoFromExif reports a removal, the bytes it
\* returns have the length of d2, are 0 at the 12 bytes of every IFD0 entry
\* whose tag is Make, Model, MakerNote or the Interoperability pointer, and
\* equal d2 at every other index (entry count, other entries, next-IFD
\* slot, everything outside IFD0).
\* ------------------------------------------------------------------------
\* index k (1-based) lies in an IFD0 entry of d whose tag is in the deny-set
InDeniedEntry(d, k) ==
  \E i \in 0..(Ifd0Count(d) - 1) :
    /\ Ifd0EntryPos(d, i) + 12 <= Len(d)
    /\ EntryTag(d, i) \in cameraTagsToRemove
    /\ k > Ifd0EntryPos(d, i)
    /\ k <= Ifd0EntryPos(d, i) + 12

CameraFrame(d) ==
  With(removeCameraInfoFromExif(d), LAMBDA r :
    r.removed =>
      /\ Len(r.data) = Len(d)
      /\ \A k \in 1..Len(d) : r.data[k] = IF InDeniedEntry(d, k) THEN 0 ELSE d[k])

C23_CameraFrame ==
  AtExif =>
    /\ CameraFrame(segments[idx + 1].Data)
    /\ ~removeThumbnailFromExif(segments[idx + 1].Data).err =>
         CameraFrame(CamScanInput(segments[idx + 1].Data))

\* a returned call whose EXIF payload held a camera entry next to an entry
\* that is not in the deny-set: the output payload is what the camera
\* sub-edit returned
C23_Witness ==
  /\ Done /\ call = 1
  /\ result.CameraInfo > 0
  /\ \E j \in ExifSegs(segments) :
       /\ ~removeThumbnailFromExif(segments[j].Data).err
       /\ With(CamScanInput(segments[j].Data), LAMBDA d2 :
            /\ removeCameraInfoFromExif(d2).removed
            /\ Kept(j) /\ OutData(j) = removeCameraInfoFromExif(d2).data
            /\ OutData(j) # d2
            /\ Ifd0Count(d2) = 2
            /\ \E i \in 0..1 : EntryTag(d2, i) \notin cameraTagsToRemove
            /\ \E k \in 1..Len(d2) : InDeniedEntry(d2, k) /\ d2[k] # 0)

\* ------------------------------------------------------------------------
\* C24  GPS sub-edit frame: for the bytes d1 the GPS sub-edit is handed, at
\* every EXIF segment the loop meets, and for that segment's own payload:
\* when removeGPSFromExif reports a removal, the bytes it returns have the
\* length of d1, are 0 at the 4 value / offset bytes of the first IFD0
\* entry with tag 0x8825, equal d1 at every other index, and the reported
\* count is 200.
\* ------------------------------------------------------------------------
IsGpsEntry(d, i) == Ifd0EntryPos(d, i) + 12 <= Len(d) /\ EntryTag(d, i) = 34853

\* index k (1-based) lies in the value / offset field of entry i of IFD0
InValueField(d, i, k) == k > Ifd0EntryPos(d, i) + 8 /\ k <= Ifd0EntryPos(d, i) + 12

GpsFrame(d) ==
  With(removeGPSFromExif(d), LAMBDA r :
    r.removed =>
      /\ Len(r.data) = Len(d)
      /\ r.size = 200
      /\ \E i \in 0..(Ifd0Count(d) - 1) :
           /\ IsGpsEntry(d, i)
           /\ \A j \in 0..(i - 1) : ~IsGpsEntry(d, j)
           /\ \A k \in 1..Len(d) : r.data[k] = IF InValueField(d, i, k) THEN 0 ELSE d[k])

C24_GpsFrame ==
  AtExif =>
    /\ GpsFrame(segments[idx + 1].Data)
    /\ ~removeThumbnailFromExif(segments[idx + 1].Data).err =>
         GpsFrame(GpsScanInput(segments[idx + 1].Data))

\* a returned call whose EXIF payload held a GPS pointer behind another
\* entry: the output payload is what the GPS sub-edit returned (the camera
\* sub-edit found nothing), 200 is counted
C24_Witness ==
  /\ Done /\ call = 1
  /\ result.ExifGPS = 200 /\ result.CameraInfo = 0
  /\ \E j \in ExifSegs(segments) :
       /\ ~removeThumbnailFromExif(segments[j].Data).err
       /\ With(GpsScanInput(segments[j].Data), LAMBDA d1 :
            /\ removeGPSFromExif(d1).removed
            /\ Kept(j) /\ OutData(j) = removeGPSFromExif(d1).data
            /\ OutData(j) # d1
            /\ Ifd0Count(d1) = 2
            /\ IsGpsEntry(d1, 1))

\* ------------------------------------------------------------------------
\* C25  Camera accounting: for the EXIF payload d the loop is about to
\* handle, the byte count removeCameraInfoFromExif reports is the sum, over
\* the IFD0 entries of d whose tag is in the deny-set, of the size of the
\* entry's type (1 for types 1, 2, 6, 7; 2 for 3, 8; 4 for 4, 9, 11; 8 for
\* 5, 10, 12; 1 for any other type) times its count, both read in the byte
\* order of d.  The sum stays below 2^63: an entry count has 16 bits, a type
\* size 4, a value count 32, so the sum has at most 52.
\* ------------------------------------------------------------------------
SizeOfType(t) ==
  CASE t \in {1, 2, 6, 7}  -> 1
    [] t \in {3, 8}        -> 2
    [] t \in {4, 9, 11}    -> 4
    [] t \in {5, 10, 12}   -> 8
    [] OTHER               -> 1

\* the sum over the entries 0..n-1 of IFD0 of d
RECURSIVE DeniedSizeSum(_, _)
DeniedSizeSum(d, n) ==
  IF n = 0 THEN 0
  ELSE DeniedSizeSum(d, n - 1) +
       (IF EntryTag(d, n - 1) \in cameraTagsToRemove
          THEN SizeOfType(EntryType(d, n - 1)) * EntryCount(d, n - 1) ELSE 0)

\* the number of binary digits of n
RECURSIVE BitLen(_)
BitLen(n) == IF n = 0 THEN 0 ELSE 1 + BitLen(n \div 2)

C25_CameraAccounting ==
  /\ BitLen(65535) + BitLen(8) + 32 <= 63
  /\ (AtExif /\ ValidExif(segments[idx + 1].Data)) =>
       With(segments[idx + 1].Data, LAMBDA d :
         /\ removeCameraInfoFromExif(d).size = DeniedSizeSum(d, Ifd0Count(d))
         /\ processSegment(segments[idx + 1], result).result.CameraInfo
              = result.CameraInfo + DeniedSizeSum(d, Ifd0Count(d)))

\* a returned call on a big-endian payload with a DOUBLE entry and a SHORT
\* entry under deny-set tags: 8 * 16777215 + 2 * 5 bytes are counted
C25_Witness ==
  /\ Done /\ call = 1
  /\ result.CameraInfo = 8 * 16777215 + 2 * 5
  /\ \E i \in ExifSegs(segments) :
       /\ ~TiffLE(segments[i].Data)
       /\ Ifd0Count(segments[i].Data) = 2
       /\ EntryType(segments[i].Data, 0) = 12
       /\ EntryType(segments[i].Data, 1) = 3
       /\ DeniedSizeSum(segments[i].Data, 2) = result.CameraInfo

\* ------------------------------------------------------------------------
\* C26  Structural validity of edited EXIF: when Strip returns, every EXIF
\* segment whose payload it replaced has a payload that passes the editor's
\* own validation: EXIF signature, 8-byte TIFF header, IFD0 entry count,
\* entry table and next-IFD slot inside the payload.
\* ------------------------------------------------------------------------
C26_EditedExifValid ==
  Done =>
    \A i \in ExifSegs(segments) :
      (Kept(i) /\ OutData(i) # segments[i].Data) => ValidExif(OutData(i))

\* ------------------------------------------------------------------------
\* C27  Non-negative counters: when Strip returns, every category counter
\* of the Result and Total are at least 0.
\* ------------------------------------------------------------------------
C27_NonNegative ==
  Done =>
    /\ result.ExifThumbnail >= 0
    /\ result.ExifGPS >= 0
    /\ result.CameraInfo >= 0
    /\ result.XMP >= 0
    /\ result.IPTC >= 0
    /\ result.PhotoshopIRB >= 0
    /\ result.Comments >= 0
    /\ result.Total >= 0

\* ------------------------------------------------------------------------
\* C28  In-bounds access: for the payload d of the APP1 segment the loop is
\* about to handle, whatever its length and declared offsets and counts,
\* every slice expression and indexed store that removeThumbnailFromExif,
\* removeGPSFromExif and removeCameraInfoFromExif evaluate on d, and those
\* the GPS and camera sub-edits evaluate on the bytes cleanExifSegment hands
\* them, satisfy 0 <= lo <= hi <= length of the buffer.
\* ------------------------------------------------------------------------
InBounds(a) == 0 <= a[1] /\ a[1] <= a[2] /\ a[2] <= a[3]

AtAPP1 ==
  /\ pc = "loop"
  /\ idx < Len(segments)
  /\ segments[idx + 1].MarkerId = MARKER_APP1

EditorAccesses(d) ==
  thumbnailAccesses(d) \cup gpsAccesses(d) \cup cameraAccesses(d) \cup
  gpsAccesses(GpsScanInput(d)) \cup cameraAccesses(CamScanInput(d))

C28_InBounds ==
  AtAPP1 => \A a \in EditorAccesses(segments[idx + 1].Data) : InBounds(a)

\* a returned call on a payload whose declared entry count (65535) runs far
\* past its end and whose IFD0 offset is 0: the scans stopped at the end
C28_Witness ==
  /\ Done /\ call = 1
  /\ \E i \in ExifSegs(segments) :
       With(segments[i].Data, LAMBDA d :
         /\ Len(d) = 48
         /\ readUint32(d, 10, TiffLE(d)) = 0
         /\ reachesIfd0(d)
         /\ readUint16(d, 6, TiffLE(d)) * 12 > Len(d)
         /\ Cardinality(gpsAccesses(d)) > 6
         /\ Kept(i))

\* ------------------------------------------------------------------------
\* C29  IPTC counter unused: Removed.IPTC is 0 at every point of a call and
\* in the Result Strip returns; the payload bytes of the dropped APP13
\* segments are all under Removed.PhotoshopIRB.
\* ------------------------------------------------------------------------
C29_IptcUnused ==
  /\ result.IPTC = 0
  /\ Done =>
       /\ ret.result[1].IPTC = 0
       /\ ret.result[1].PhotoshopIRB = PayloadSum(segments, IrbSegs(segments))

\* a returned call that dropped an APP13 segment
C29_Witness ==
  /\ Done /\ call = 1
  /\ IrbSegs(segments) # {}
  /\ \A i \in IrbSegs(segments) : ~Kept(i)
  /\ result.PhotoshopIRB = 5
  /\ result.IPTC = 0

====
